---- MODULE Spec2Model ----
(***************************************************************************)
(* Model of Evalir/merkle-go: the array-indexed FlatMerkleTree             *)
(* (flatmerkletree.go) with its Insert / Finalize / RootHash / Proof /     *)
(* Verify life cycle, and the pointer-linked MerkleTree (merkletree.go).   *)
(*                                                                         *)
(* Byte strings are sequences of atoms.  A raw byte is the atom            *)
(* <<"b", n>>; the 32-byte output of sha256 over the bytes raw is the one  *)
(* atom <<"H", raw>>, so the digest is collision-free by construction.     *)
(* A nil Block or TreeNode is the value Nil, distinct from the empty       *)
(* byte string <<>>.                                                       *)
(* Go slices are 0-indexed: At(s, i) reads s[i].                           *)
(***************************************************************************)
EXTENDS Integers, Sequences, FiniteSets, TLC

VARIABLES mt, peer, given, ret, nt

vars == <<mt, peer, given, ret, nt>>

----------------------------------------------------------------------------
(* Bounds *)

MaxBlocks == 5
MaxSeed == 2
MaxPairBlocks == 4
MaxContent == 5

----------------------------------------------------------------------------
(* Bytes, nil, Go arithmetic *)

Nil == << <<"nil", 0>> >>

Byte(n) == <<"b", n>>

\* len of a slice of blocks, nodes or pointers (a nil slice is <<>>).
len(s) == Len(s)

Bytes(s) == IF s = Nil THEN <<>> ELSE s

At(s, i) == s[i + 1]

InRange(s, i) == 0 <= i /\ i < len(s)

bytesEqual(a, b) == Bytes(a) = Bytes(b)

\* Mutant: floor division, (0 - 1) / 2 = -1.
GoDiv_floor(a, b) == a \div b

\* Go integer division truncates toward zero: (0 - 1) / 2 = 0.
GoDiv(a, b) == IF a >= 0 THEN a \div b ELSE -((-a) \div b)

RECURSIVE Log2Floor(_)
\* int(math.Log2(float64(n))) for n >= 1
Log2Floor(n) == IF n <= 1 THEN 0 ELSE 1 + Log2Floor(n \div 2)

\* The non-nil block values callers pass: the empty block and "h".
BlockVals == { <<>>, <<Byte(104)>> }

\* The strings held by the contents of a node-graph tree: "", "h" and "hi".
ContentVals == { <<>>, <<Byte(104)>>, <<Byte(104), Byte(105)>> }

----------------------------------------------------------------------------
(* Errors.  nil is NoErr; fmt.Errorf results keep their format and args.   *)

NoErr == <<>>

ErrNilBlock == <<"Block to insert cannot be nil">>

ErrEmptyMerkleTree == <<"Merkle tree cannot be empty; insert some blocks">>

ErrTreeAlreadyFinalized == <<"Merkle tree already finalized">>

ErrTreeNotFinalized == <<"Merkle tree not finalized">>

\* A run-time panic (index out of range).
Panic == <<"panic: runtime error: index out of range", 0, 0>>

EncodeToString(b) == <<"hex", Bytes(b)>>

ErrRootHash == <<"invalid root hash: %v", ErrTreeNotFinalized>>

ErrFinalizeEmpty == <<"Failed to finalize: %s", ErrEmptyMerkleTree>>

ErrBlockNotFound(block) == <<"block does not exist: %v", EncodeToString(block)>>

ErrInvalidProof(i, block, got, want) ==
    <<"invalid proof at index %d for block %X; got: %X, want: %X", i, block, got, want>>

----------------------------------------------------------------------------
(* Hashing *)

internalNodePrefix == Byte(1)

leafNodePrefix == Byte(0)

\* sha256.Sum256 as an injective function of its input.
Sum256(raw) == << <<"H", raw>> >>

\* Mutant: the internal prefix is never written.
hashNode_noPrefix(data, internal) == Sum256(<<leafNodePrefix>> \o Bytes(data))

hashNode(data, internal) ==
    LET raw == << IF internal THEN internalNodePrefix ELSE leafNodePrefix >> \o Bytes(data)
    IN  Sum256(raw)

copyNode(node) == Bytes(node)

----------------------------------------------------------------------------
(* FlatMerkleTree *)

NewMerkleTree(blocks) ==
    [blocks |-> blocks, nodes |-> <<>>, root |-> Nil, finalized |-> FALSE]

hasChild(nodes, idx) ==
    LET n == len(nodes)
        l == 2 * idx + 1
        r == 2 * idx + 2
    IN  l < n \/ r < n

RECURSIVE finalize_swapped(_, _)
\* Mutant: the children are hashed right before left.
finalize_swapped(nodes, idx) ==
    IF ~InRange(nodes, idx)
    THEN [nodes |-> nodes, node |-> Nil, panic |-> TRUE]
    ELSE IF ~hasChild(nodes, idx)
    THEN [nodes |-> nodes, node |-> At(nodes, idx), panic |-> FALSE]
    ELSE LET l == finalize_swapped(nodes, 2 * idx + 1)
         IN  IF l.panic THEN l
             ELSE LET r == finalize_swapped(l.nodes, 2 * idx + 2)
                  IN  IF r.panic THEN r
                      ELSE LET h == hashNode(r.node \o l.node, TRUE)
                           IN  [nodes |-> [r.nodes EXCEPT ![idx + 1] = h],
                                node |-> h, panic |-> FALSE]

RECURSIVE finalize(_, _)
\* The node array after finalize(idx), the node it returns, and whether it
\* indexed outside the array.
finalize(nodes, idx) ==
    IF ~InRange(nodes, idx)
    THEN [nodes |-> nodes, node |-> Nil, panic |-> TRUE]
    ELSE IF ~hasChild(nodes, idx)
    THEN [nodes |-> nodes, node |-> At(nodes, idx), panic |-> FALSE]
    ELSE LET l == finalize(nodes, 2 * idx + 1)
         IN  IF l.panic THEN l
             ELSE LET r == finalize(l.nodes, 2 * idx + 2)
                  IN  IF r.panic THEN r
                      ELSE LET h == hashNode(l.node \o r.node, TRUE)
                           IN  [nodes |-> [r.nodes EXCEPT ![idx + 1] = h],
                                node |-> h, panic |-> FALSE]

\* Mutant: a block that matches nothing is taken to be the first leaf.
findLeaf_defaultFirst(m, block) ==
    IF block = Nil THEN [idx |-> -1, err |-> ErrNilBlock]
    ELSE LET hits == {i \in 0..(len(m.blocks) - 1) : bytesEqual(At(m.blocks, i), block)}
         IN  [idx |-> len(m.nodes) - len(m.blocks)
                        + (IF hits # {} THEN CHOOSE i \in hits : \A j \in hits : i <= j
                           ELSE 0),
              err |-> NoErr]

findLeaf(m, block) ==
    IF block = Nil THEN [idx |-> -1, err |-> ErrNilBlock]
    ELSE LET hits == {i \in 0..(len(m.blocks) - 1) : bytesEqual(At(m.blocks, i), block)}
         IN  IF hits # {}
             THEN [idx |-> len(m.nodes) - len(m.blocks)
                             + (CHOOSE i \in hits : \A j \in hits : i <= j),
                   err |-> NoErr]
             ELSE [idx |-> -1, err |-> ErrBlockNotFound(block)]

RootHash(m) ==
    IF ~m.finalized THEN [val |-> Nil, err |-> ErrRootHash]
    ELSE [val |-> copyNode(m.root), err |-> NoErr]

\* Mutant: no finalized check.
Insert_noGuard(m, block) ==
    IF block = Nil THEN [mt |-> m, err |-> ErrNilBlock]
    ELSE [mt |-> [m EXCEPT !.blocks = Append(m.blocks, block)], err |-> NoErr]

Insert(m, block) ==
    IF block = Nil THEN [mt |-> m, err |-> ErrNilBlock]
    ELSE IF m.finalized THEN [mt |-> m, err |-> ErrTreeAlreadyFinalized]
    ELSE [mt |-> [m EXCEPT !.blocks = Append(m.blocks, block)], err |-> NoErr]

\* Mutant: no finalized check.
Finalize_noGuard(m) ==
    IF len(m.blocks) = 0 THEN [mt |-> m, err |-> ErrFinalizeEmpty]
    ELSE LET blocks == IF len(m.blocks) % 2 # 0
                       THEN Append(m.blocks, At(m.blocks, len(m.blocks) - 1))
                       ELSE m.blocks
             n == 2 * len(blocks) - 1
             j == n - len(blocks)
             leaves == [i \in 1..n |-> IF i - 1 >= j
                                       THEN hashNode(At(blocks, i - 1 - j), FALSE)
                                       ELSE Nil]
             f == finalize(leaves, 0)
         IN  IF f.panic
             THEN [mt |-> [m EXCEPT !.blocks = blocks, !.nodes = f.nodes], err |-> Panic]
             ELSE [mt |-> [blocks |-> blocks, nodes |-> f.nodes,
                           root |-> f.node, finalized |-> TRUE],
                   err |-> NoErr]

\* Mutant: an odd block count is not padded.
Finalize_noPad(m) ==
    IF len(m.blocks) = 0 THEN [mt |-> m, err |-> ErrFinalizeEmpty]
    ELSE IF m.finalized THEN [mt |-> m, err |-> ErrTreeAlreadyFinalized]
    ELSE LET blocks == m.blocks
             n == 2 * len(blocks) - 1
             j == n - len(blocks)
             leaves == [i \in 1..n |-> IF i - 1 >= j
                                       THEN hashNode(At(blocks, i - 1 - j), FALSE)
                                       ELSE Nil]
             f == finalize(leaves, 0)
         IN  IF f.panic
             THEN [mt |-> [m EXCEPT !.blocks = blocks, !.nodes = f.nodes], err |-> Panic]
             ELSE [mt |-> [blocks |-> blocks, nodes |-> f.nodes,
                           root |-> f.node, finalized |-> TRUE],
                   err |-> NoErr]

Finalize(m) ==
    IF len(m.blocks) = 0 THEN [mt |-> m, err |-> ErrFinalizeEmpty]
    ELSE IF m.finalized THEN [mt |-> m, err |-> ErrTreeAlreadyFinalized]
    ELSE LET blocks == IF len(m.blocks) % 2 # 0
                       THEN Append(m.blocks, At(m.blocks, len(m.blocks) - 1))
                       ELSE m.blocks
             n == 2 * len(blocks) - 1
             j == n - len(blocks)
             leaves == [i \in 1..n |-> IF i - 1 >= j
                                       THEN hashNode(At(blocks, i - 1 - j), FALSE)
                                       ELSE Nil]
             f == finalize(leaves, 0)
         IN  IF f.panic
             THEN [mt |-> [m EXCEPT !.blocks = blocks, !.nodes = f.nodes], err |-> Panic]
             ELSE [mt |-> [blocks |-> blocks, nodes |-> f.nodes,
                           root |-> f.node, finalized |-> TRUE],
                   err |-> NoErr]

RECURSIVE proofLoop(_, _, _, _)
\* The loop of Proof from (nodeIdx, k) on: the filled slice, or a panic.
proofLoop(nodes, nodeIdx, k, proof) ==
    IF nodeIdx > 0
    THEN LET sib == IF nodeIdx % 2 = 0 THEN nodeIdx - 1 ELSE nodeIdx + 1
         IN  IF ~InRange(nodes, sib) \/ ~InRange(proof, k)
             THEN [proof |-> proof, panic |-> TRUE]
             ELSE proofLoop(nodes, GoDiv(nodeIdx - 1, 2), k + 1,
                            [proof EXCEPT ![k + 1] = copyNode(At(nodes, sib))])
    ELSE [proof |-> proof, panic |-> FALSE]

\* Mutant: the unused last slot is not dropped.
Proof_noTrim(m, block) ==
    IF block = Nil THEN [val |-> <<>>, err |-> ErrNilBlock]
    ELSE IF ~m.finalized THEN [val |-> <<>>, err |-> ErrTreeNotFinalized]
    ELSE LET f == findLeaf(m, block)
         IN  IF f.err # NoErr THEN [val |-> <<>>, err |-> f.err]
             ELSE IF len(m.nodes) < 1 THEN [val |-> <<>>, err |-> Panic]
             ELSE LET slots == [i \in 1..Log2Floor(len(m.nodes)) |-> Nil]
                      w == proofLoop(m.nodes, f.idx, 0, slots)
                  IN  IF w.panic \/ len(w.proof) = 0
                      THEN [val |-> <<>>, err |-> Panic]
                      ELSE [val |-> w.proof, err |-> NoErr]

Proof(m, block) ==
    IF block = Nil THEN [val |-> <<>>, err |-> ErrNilBlock]
    ELSE IF ~m.finalized THEN [val |-> <<>>, err |-> ErrTreeNotFinalized]
    ELSE LET f == findLeaf(m, block)
         IN  IF f.err # NoErr THEN [val |-> <<>>, err |-> f.err]
             ELSE IF len(m.nodes) < 1 THEN [val |-> <<>>, err |-> Panic]
             ELSE LET slots == [i \in 1..Log2Floor(len(m.nodes)) |-> Nil]
                      w == proofLoop(m.nodes, f.idx, 0, slots)
                  IN  IF w.panic \/ len(w.proof) = 0
                      THEN [val |-> <<>>, err |-> Panic]
                      ELSE IF At(w.proof, len(w.proof) - 1) = Nil
                      THEN [val |-> SubSeq(w.proof, 1, len(w.proof) - 1), err |-> NoErr]
                      ELSE [val |-> w.proof, err |-> NoErr]

\* Mutant: the sibling goes left at odd indices.
reconstruct_swapped(nodes, currNodeIdx, proofChunk) ==
    LET proofNodeBytes == copyNode(proofChunk)
        currentNodeBytes == copyNode(At(nodes, currNodeIdx))
    IN  IF currNodeIdx % 2 = 1
        THEN hashNode(proofNodeBytes \o currentNodeBytes, TRUE)
        ELSE hashNode(currentNodeBytes \o proofNodeBytes, TRUE)

\* Verify, lines 134-144: the digest rebuilt from the node at currNodeIdx
\* and one proof chunk.
reconstruct(nodes, currNodeIdx, proofChunk) ==
    LET proofNodeBytes == copyNode(proofChunk)
        currentNodeBytes == copyNode(At(nodes, currNodeIdx))
    IN  IF currNodeIdx % 2 = 0
        THEN hashNode(proofNodeBytes \o currentNodeBytes, TRUE)
        ELSE hashNode(currentNodeBytes \o proofNodeBytes, TRUE)

RECURSIVE verifyLoop(_, _, _, _, _)
\* The loop of Verify from proof entry i on, at node currNodeIdx.
verifyLoop(nodes, block, proof, i, currNodeIdx) ==
    IF i >= len(proof) THEN NoErr
    ELSE IF ~InRange(nodes, currNodeIdx) THEN Panic
    ELSE LET reconstructedNode == reconstruct(nodes, currNodeIdx, At(proof, i))
             parentIdx == GoDiv(currNodeIdx - 1, 2)
         IN  IF ~InRange(nodes, parentIdx) THEN Panic
             ELSE LET parentNode == At(nodes, parentIdx)
                  IN  IF ~bytesEqual(parentNode, reconstructedNode)
                      THEN ErrInvalidProof(i, block, reconstructedNode, parentNode)
                      ELSE verifyLoop(nodes, block, proof, i + 1, parentIdx)

Verify(m, block, proof) ==
    IF ~m.finalized THEN ErrTreeNotFinalized
    ELSE LET f == findLeaf(m, block)
         IN  IF f.err # NoErr THEN f.err
             ELSE verifyLoop(m.nodes, block, proof, 0, f.idx)

----------------------------------------------------------------------------
(* MerkleTree (merkletree.go): nodes live in a heap, a pointer is an index *)
(* into it and 0 is the nil pointer.  hashFunc is sha256.New.              *)

ErrNoContents == <<"error: cannot make a merkle tree without any contents.">>

\* buildIntermediate called on fewer than two nodes recurses without end.
StackOverflow == <<"fatal error: stack overflow", 0, 0, 0>>

\* TestSHA256Content.CalculateHash: sha256 of the content, no prefix.
CalculateHash(item) == Sum256(Bytes(item))

Node(left, right, leaf, dup, hash, item) ==
    [Left |-> left, Right |-> right, Parent |-> 0,
     leaf |-> leaf, dup |-> dup, Hash |-> hash, Item |-> item]

RECURSIVE buildLevel_dropUnpaired(_, _, _, _)
\* Mutant: the loop stops before an unpaired last node.
buildLevel_dropUnpaired(leaves, heap, i, nodes) ==
    IF i + 1 >= len(leaves)
    THEN [returned |-> FALSE, n |-> 0, heap |-> heap, nodes |-> nodes]
    ELSE LET left == i
             right == IF i + 1 = len(leaves) THEN i ELSE i + 1
             itemHash == heap[At(leaves, left)].Hash \o heap[At(leaves, right)].Hash
             n == Len(heap) + 1
             linked == [q \in 1..Len(heap) |->
                          IF q = At(leaves, left) \/ q = At(leaves, right)
                          THEN [heap[q] EXCEPT !.Parent = n]
                          ELSE heap[q]]
             heap1 == Append(linked, Node(At(leaves, left), At(leaves, right),
                                          FALSE, FALSE, Sum256(itemHash), Nil))
         IN  IF len(leaves) = 2
             THEN [returned |-> TRUE, n |-> n, heap |-> heap1, nodes |-> Append(nodes, n)]
             ELSE buildLevel_dropUnpaired(leaves, heap1, i + 2, Append(nodes, n))

RECURSIVE buildLevel(_, _, _, _)
\* The for loop of buildIntermediate from index i on.
buildLevel(leaves, heap, i, nodes) ==
    IF i >= len(leaves)
    THEN [returned |-> FALSE, n |-> 0, heap |-> heap, nodes |-> nodes]
    ELSE LET left == i
             right == IF i + 1 = len(leaves) THEN i ELSE i + 1
             itemHash == heap[At(leaves, left)].Hash \o heap[At(leaves, right)].Hash
             n == Len(heap) + 1
             linked == [q \in 1..Len(heap) |->
                          IF q = At(leaves, left) \/ q = At(leaves, right)
                          THEN [heap[q] EXCEPT !.Parent = n]
                          ELSE heap[q]]
             heap1 == Append(linked, Node(At(leaves, left), At(leaves, right),
                                          FALSE, FALSE, Sum256(itemHash), Nil))
         IN  IF len(leaves) = 2
             THEN [returned |-> TRUE, n |-> n, heap |-> heap1, nodes |-> Append(nodes, n)]
             ELSE buildLevel(leaves, heap1, i + 2, Append(nodes, n))

RECURSIVE buildIntermediate(_, _)
buildIntermediate(leaves, heap) ==
    IF len(leaves) < 2
    THEN [root |-> 0, heap |-> heap, err |-> StackOverflow]
    ELSE LET lv == buildLevel(leaves, heap, 0, <<>>)
         IN  IF lv.returned
             THEN [root |-> lv.n, heap |-> lv.heap, err |-> NoErr]
             ELSE buildIntermediate(lv.nodes, lv.heap)

buildTree(content) ==
    LET made == [i \in 1..Len(content) |->
                    Node(0, 0, TRUE, FALSE, CalculateHash(content[i]), content[i])]
        heap == IF Len(made) % 2 = 1
                THEN Append(made, Node(0, 0, TRUE, TRUE,
                                       made[Len(made)].Hash, made[Len(made)].Item))
                ELSE made
        leaves == [i \in 1..Len(heap) |-> i]
        b == buildIntermediate(leaves, heap)
    IN  [root |-> b.root, leaves |-> leaves, heap |-> b.heap, err |-> b.err]

NoTree == [Root |-> 0, merkleRoot |-> Nil, Leaves |-> <<>>]

NewTree(content) ==
    IF len(content) = 0
    THEN [t |-> NoTree, heap |-> <<>>, err |-> ErrNoContents]
    ELSE LET b == buildTree(content)
         IN  IF b.err # NoErr
             THEN [t |-> NoTree, heap |-> b.heap, err |-> b.err]
             ELSE [t |-> [Root |-> b.root, merkleRoot |-> b.heap[b.root].Hash,
                          Leaves |-> b.leaves],
                   heap |-> b.heap, err |-> NoErr]

MerkleRoot(t) == t.merkleRoot

RECURSIVE VerifyNode(_, _)
VerifyNode(heap, n) ==
    IF heap[n].leaf THEN CalculateHash(heap[n].Item)
    ELSE LET leftBytes == VerifyNode(heap, heap[n].Left)
             rightBytes == VerifyNode(heap, heap[n].Right)
         IN  Sum256(leftBytes \o rightBytes)

----------------------------------------------------------------------------
(* The caller: one synchronous call at a time.  ret holds the last call,   *)
(* its arguments and what it returned, until the caller drops it.          *)

Idle == [op |-> "idle", block |-> Nil, proof |-> <<>>, val |-> Nil, err |-> NoErr]

Call(op, block, proof, val, err) ==
    [op |-> op, block |-> block, proof |-> proof, val |-> val, err |-> err]

BlockArgs == BlockVals \cup {Nil}

RECURSIVE SeqsUpTo(_, _)
SeqsUpTo(S, n) ==
    IF n = 0 THEN {<<>>}
    ELSE LET shorter == SeqsUpTo(S, n - 1)
         IN  shorter \cup {Append(s, x) : s \in {t \in shorter : Len(t) = n - 1}, x \in S}

\* The blocks findLeaf matches: the byte strings equal, by bytes, to one of
\* the blocks.  A nil block of the tree is matched by the empty block, and
\* findLeaf(nil) is an error.
Present(m) == {Bytes(At(m.blocks, i)) : i \in 0..(len(m.blocks) - 1)}

Prefixes(p) == {SubSeq(p, 1, k) : k \in 0..Len(p)}

\* Chunks a caller may put in place of a sibling digest.
ForgedChunks(m, block) ==
    {Nil, <<>>, hashNode(block, FALSE), hashNode(block, TRUE)}
        \cup {At(m.nodes, i) : i \in 0..(len(m.nodes) - 1)}

Replaced(p, chunks) == {[p EXCEPT ![k] = c] : k \in 1..Len(p), c \in chunks}

Extended(p, chunks) ==
    {Append(p, c) : c \in chunks \cup (IF Len(p) > 0 THEN {p[Len(p)]} ELSE {})}

\* The proofs handed to Verify: the nil proof, one-entry proofs, the
\* genuine proofs of the present blocks, their prefixes, and each genuine
\* proof with one entry replaced or one entry added.
ProofArgs(m, block) ==
    LET genuine == {Proof(m, b).val : b \in Present(m)}
        forged == ForgedChunks(m, block)
    IN  {<<>>} \cup {<<c>> : c \in forged}
        \cup UNION {Prefixes(p) \cup Replaced(p, forged) \cup Extended(p, forged) :
                       p \in genuine}

\* nt before NewTree has been called.
NotBuilt == [content |-> <<>>, t |-> NoTree, heap |-> <<>>, err |-> NoErr, built |-> FALSE]

\* NewMerkleTree(blocks...) with up to MaxSeed blocks.  The constructor does
\* not check its arguments, so a seed block may be nil.
Init ==
    /\ \E s \in SeqsUpTo(BlockArgs, MaxSeed) :
          /\ mt = NewMerkleTree(s)
          /\ given = [mt |-> s, peer |-> <<>>]
    /\ peer = NewMerkleTree(<<>>)
    /\ ret = Idle
    /\ nt = NotBuilt

InsertCall(block) ==
    /\ ret.op = "idle"
    /\ len(mt.blocks) < MaxBlocks \/ mt.finalized \/ block = Nil
    /\ LET r == Insert(mt, block)
       IN  /\ mt' = r.mt
           /\ ret' = Call("Insert", block, <<>>, Nil, r.err)
           /\ given' = IF r.err = NoErr
                       THEN [given EXCEPT !.mt = Append(@, block)]
                       ELSE given
    /\ UNCHANGED <<peer, nt>>

FinalizeCall ==
    /\ ret.op = "idle"
    /\ LET r == Finalize(mt)
       IN  /\ mt' = r.mt
           /\ ret' = Call("Finalize", Nil, <<>>, Nil, r.err)
    /\ UNCHANGED <<peer, given, nt>>

RootHashCall ==
    /\ ret.op = "idle"
    /\ LET r == RootHash(mt)
       IN  ret' = Call("RootHash", Nil, <<>>, r.val, r.err)
    /\ UNCHANGED <<mt, peer, given, nt>>

ProofCall(block) ==
    /\ ret.op = "idle"
    /\ LET r == Proof(mt, block)
       IN  ret' = Call("Proof", block, r.val, Nil, r.err)
    /\ UNCHANGED <<mt, peer, given, nt>>

VerifyCall(block) ==
    /\ ret.op = "idle"
    /\ \E proof \in ProofArgs(mt, block) :
          ret' = Call("Verify", block, proof, Nil, Verify(mt, block, proof))
    /\ UNCHANGED <<mt, peer, given, nt>>

Return ==
    /\ ret.op # "idle"
    /\ ret' = Idle
    /\ UNCHANGED <<mt, peer, given, nt>>

Next ==
    \/ \E b \in BlockArgs : InsertCall(b)
    \/ FinalizeCall
    \/ RootHashCall
    \/ \E b \in BlockArgs : ProofCall(b)
    \/ \E b \in BlockArgs : VerifyCall(b)
    \/ Return

Spec == Init /\ [][Next]_vars

----------------------------------------------------------------------------
(* Two trees built side by side *)

PeerInsert(block) ==
    /\ ret.op = "idle"
    /\ len(peer.blocks) < MaxPairBlocks
    /\ LET r == Insert(peer, block)
       IN  /\ peer' = r.mt
           /\ given' = IF r.err = NoErr
                       THEN [given EXCEPT !.peer = Append(@, block)]
                       ELSE given
    /\ UNCHANGED <<mt, ret, nt>>

PeerFinalize ==
    /\ ret.op = "idle"
    /\ ~peer.finalized
    /\ peer' = Finalize(peer).mt
    /\ UNCHANGED <<mt, given, ret, nt>>

\* The block values of the two trees: "h", and the 64 bytes made of the
\* leaf digest of "h" twice (a block that looks like an internal node's input).
PairBlockVals ==
    { <<Byte(104)>>, hashNode(<<Byte(104)>>, FALSE) \o hashNode(<<Byte(104)>>, FALSE) }

InitEmpty ==
    /\ mt = NewMerkleTree(<<>>)
    /\ peer = NewMerkleTree(<<>>)
    /\ given = [mt |-> <<>>, peer |-> <<>>]
    /\ ret = Idle
    /\ nt = NotBuilt

\* The seed arguments of the two constructors: none, one nil block, one
\* empty block.
PairSeeds == { <<>>, <<Nil>>, << <<>> >> }

\* mt and peer as two NewMerkleTree(blocks...) results.
InitPair ==
    /\ \E s, t \in PairSeeds :
          /\ mt = NewMerkleTree(s)
          /\ peer = NewMerkleTree(t)
          /\ given = [mt |-> s, peer |-> t]
    /\ ret = Idle
    /\ nt = NotBuilt

NextPair ==
    \/ \E b \in PairBlockVals : len(mt.blocks) < MaxPairBlocks /\ InsertCall(b)
    \/ FinalizeCall
    \/ RootHashCall
    \/ \E b \in PairBlockVals : PeerInsert(b)
    \/ PeerFinalize
    \/ Return

SpecPair == InitPair /\ [][NextPair]_vars

----------------------------------------------------------------------------
(* The pointer-linked tree *)

NewTreeCall(content) ==
    /\ ret.op = "idle"
    /\ ~nt.built
    /\ LET r == NewTree(content)
       IN  /\ nt' = [content |-> content, t |-> r.t, heap |-> r.heap,
                     err |-> r.err, built |-> TRUE]
           /\ ret' = Call("NewTree", Nil, <<>>, Nil, r.err)
    /\ UNCHANGED <<mt, peer, given>>

MerkleRootCall ==
    /\ ret.op = "idle"
    /\ nt.built /\ nt.err = NoErr
    /\ ret' = Call("MerkleRoot", Nil, <<>>, MerkleRoot(nt.t), NoErr)
    /\ UNCHANGED <<mt, peer, given, nt>>

VerifyNodeCall ==
    /\ ret.op = "idle"
    /\ nt.built /\ nt.err = NoErr
    /\ ret' = Call("VerifyNode", Nil, <<>>, VerifyNode(nt.heap, nt.t.Root), NoErr)
    /\ UNCHANGED <<mt, peer, given, nt>>

NextTree ==
    \/ \E c \in SeqsUpTo(ContentVals, MaxContent) : NewTreeCall(c)
    \/ MerkleRootCall
    \/ VerifyNodeCall
    \/ Return

SpecTree == InitEmpty /\ [][NextTree]_vars

----------------------------------------------------------------------------
(* Properties *)

NotFinalizedErr(e) == e = ErrTreeNotFinalized \/ e = ErrRootHash

IsMismatch(e) ==
    Len(e) = 5 /\ e[1] = "invalid proof at index %d for block %X; got: %X, want: %X"

IsPrefix(p, q) == Len(p) <= Len(q) /\ SubSeq(q, 1, Len(p)) = p

Pad(s) == IF Len(s) % 2 = 1 THEN Append(s, s[Len(s)]) ELSE s

\* Two block sequences are equal, block by block, by byte equality.
SameBlocks(s, t) ==
    Len(s) = Len(t) /\ \A i \in 1..Len(s) : Bytes(s[i]) = Bytes(t[i])

\* b is among the blocks, by byte equality.
Has(m, b) == \E i \in 1..Len(m.blocks) : Bytes(m.blocks[i]) = Bytes(b)

FirstPos(blocks, b) ==
    CHOOSE i \in 0..(Len(blocks) - 1) :
        /\ Bytes(At(blocks, i)) = Bytes(b)
        /\ \A j \in 0..(i - 1) : Bytes(At(blocks, j)) # Bytes(b)

LeafIndex(m, b) == Len(m.nodes) - Len(m.blocks) + FirstPos(m.blocks, b)

ParentOf(i) == IF i = 0 THEN 0 ELSE (i - 1) \div 2

SiblingOf(i) == IF i % 2 = 0 THEN i - 1 ELSE i + 1

RECURSIVE Ancestor(_, _)
Ancestor(i, k) == IF k = 0 THEN i ELSE Ancestor(ParentOf(i), k - 1)

RECURSIVE Depth(_)
Depth(i) == IF i = 0 THEN 0 ELSE 1 + Depth(ParentOf(i))

RECURSIVE SiblingPath(_, _)
SiblingPath(nodes, i) ==
    IF i = 0 THEN <<>> ELSE <<At(nodes, SiblingOf(i))>> \o SiblingPath(nodes, ParentOf(i))

LeafDigest(b) == << <<"H", <<Byte(0)>> \o Bytes(b)>> >>

InternalDigest(l, r) == << <<"H", <<Byte(1)>> \o l \o r>> >>

VerifiedPresent ==
    ret.op = "Verify" /\ mt.finalized /\ ret.block # Nil /\ Has(mt, ret.block)

\* C1: for every block b (a non-nil byte string) present in a finalized
\* tree, Proof(b) returns no error and Verify(b, Proof(b)) returns no error.
C1_InclusionSound ==
    /\ (ret.op = "Proof" /\ mt.finalized /\ ret.block # Nil /\ Has(mt, ret.block))
          => ret.err = NoErr
    /\ (VerifiedPresent /\ ret.proof = Proof(mt, ret.block).val)
          => ret.err = NoErr

C1_Witness ==
    /\ VerifiedPresent
    /\ ret.proof = Proof(mt, ret.block).val
    /\ ret.err = NoErr
    /\ Len(given.mt) = 5
    /\ Len(ret.proof) = 3
    /\ \E i, j \in 1..Len(given.mt) : i # j /\ given.mt[i] = given.mt[j]

\* C2: nodes, root and finalized change only in a Finalize call that finds
\* at least one block and a tree not yet finalized, which succeeds and sets
\* finalized; any other Finalize call returns an error and changes nothing;
\* once finalized, the tree never changes again.
C2_FinalizeAtomic ==
    [][ /\ (mt'.nodes # mt.nodes \/ mt'.root # mt.root \/ mt'.finalized # mt.finalized)
            => /\ ret'.op = "Finalize" /\ ret'.err = NoErr
               /\ ~mt.finalized /\ len(mt.blocks) >= 1
               /\ mt'.finalized
        /\ (ret.op = "idle" /\ ret'.op = "Finalize")
            => IF len(mt.blocks) = 0 \/ mt.finalized
               THEN ret'.err # NoErr /\ mt' = mt
               ELSE ret'.err = NoErr /\ mt'.finalized
        /\ mt.finalized => mt' = mt
      ]_vars

C2_Witness ==
    /\ mt.finalized
    /\ ret.op = "Finalize"
    /\ ret.err = ErrTreeAlreadyFinalized

\* C3 as stated: whatever the arguments, Insert after a successful Finalize
\* returns AlreadyFinalized, a second Finalize returns AlreadyFinalized, and
\* RootHash, Proof and Verify before Finalize return NotFinalized.
C3_GuardsAnyArguments ==
    [][ ret.op = "idle" =>
          /\ (ret'.op \in {"Insert", "Finalize"} /\ mt.finalized)
                => ret'.err = ErrTreeAlreadyFinalized
          /\ (ret'.op \in {"RootHash", "Proof", "Verify"} /\ ~mt.finalized)
                => NotFinalizedErr(ret'.err)
      ]_vars

\* C3 amended: Insert of a non-nil block after a successful Finalize returns
\* AlreadyFinalized, a second Finalize returns AlreadyFinalized, RootHash
\* and Verify (any arguments) and Proof of a non-nil block before Finalize
\* return NotFinalized; Insert and Proof of a nil block return NilBlock in
\* either phase.
C3_Guards ==
    [][ ret.op = "idle" =>
          /\ (ret'.op = "Insert" /\ mt.finalized /\ ret'.block # Nil)
                => ret'.err = ErrTreeAlreadyFinalized
          /\ (ret'.op = "Finalize" /\ mt.finalized)
                => ret'.err = ErrTreeAlreadyFinalized
          /\ (ret'.op \in {"RootHash", "Verify"} /\ ~mt.finalized)
                => NotFinalizedErr(ret'.err)
          /\ (ret'.op = "Proof" /\ ~mt.finalized /\ ret'.block # Nil)
                => NotFinalizedErr(ret'.err)
          /\ (ret'.op \in {"Insert", "Proof"} /\ ret'.block = Nil)
                => ret'.err = ErrNilBlock
      ]_vars

C3_Witness ==
    /\ mt.finalized
    /\ ret.op = "Insert"
    /\ ret.block # Nil
    /\ ret.err = ErrTreeAlreadyFinalized

\* C4: a finalized tree has an even number of blocks (the blocks given,
\* with a copy of the last one added when their count was odd), 2n-1 nodes,
\* the leaf digests H(0x00 || block) in the last n slots in block order, in
\* every other slot the digest H(0x01 || left || right) of its two in-range
\* children, and root = nodes[0]; before finalization nodes is empty.
C4_Structure ==
    IF mt.finalized
    THEN LET n == Len(mt.blocks)
             N == Len(mt.nodes)
         IN  /\ n % 2 = 0
             /\ mt.blocks = Pad(given.mt)
             /\ N = 2 * n - 1
             /\ \A i \in 0..(n - 1) : At(mt.nodes, N - n + i) = LeafDigest(At(mt.blocks, i))
             /\ \A j \in 0..(n - 2) :
                   /\ 2 * j + 2 < N
                   /\ At(mt.nodes, j)
                        = InternalDigest(At(mt.nodes, 2 * j + 1), At(mt.nodes, 2 * j + 2))
             /\ mt.root = At(mt.nodes, 0)
    ELSE mt.nodes = <<>> /\ mt.blocks = given.mt

C4_Witness ==
    /\ mt.finalized
    /\ ret.op = "Finalize" /\ ret.err = NoErr
    /\ Len(given.mt) = 5
    /\ Len(mt.nodes) = 11

\* C5: two finalized trees have the same RootHash() exactly when the block
\* sequences they were given are equal after padding.
C5_RootCommits ==
    (mt.finalized /\ peer.finalized)
        => ((RootHash(mt).val = RootHash(peer).val)
               <=> SameBlocks(Pad(given.mt), Pad(given.peer)))

C5_Witness ==
    /\ mt.finalized /\ peer.finalized
    /\ ret.op = "RootHash" /\ ret.err = NoErr
    /\ ret.val = RootHash(peer).val
    /\ Len(given.mt) = 3 /\ Len(given.peer) = 4
    /\ given.mt[1] # given.mt[2]

TamperedVerify ==
    /\ ret.op = "Verify" /\ mt.finalized /\ ret.block # Nil
    /\ \E b \in BlockVals :
          /\ Has(mt, b) /\ b # ret.block
          /\ ret.proof = Proof(mt, b).val

\* C6 as stated: Verify(b', Proof(b)) with b' # b fails as a verification
\* mismatch reported at proof step 0.
C6_TamperMismatchAtStepZero ==
    TamperedVerify => (IsMismatch(ret.err) /\ ret.err[2] = 0)

\* C6 amended: Verify(b', Proof(b)) with b' # b always returns an error:
\* the block-does-not-exist error when b' is not among the tree's blocks
\* (the supplied block is never hashed), and otherwise a verification
\* mismatch at some proof step, step 0 or a later one.
C6_TamperDetected ==
    TamperedVerify =>
        IF Has(mt, ret.block)
        THEN IsMismatch(ret.err) /\ ret.err[2] \in 0..(Len(ret.proof) - 1)
        ELSE ret.err = ErrBlockNotFound(ret.block)

C6_Witness ==
    /\ TamperedVerify
    /\ Has(mt, ret.block)
    /\ IsMismatch(ret.err) /\ ret.err[2] = 1

RECURSIVE LevelRoot(_)
\* The root over a level of two or more digests: pairs hashed left to
\* right, an unpaired last digest hashed with itself.
LevelRoot(hs) ==
    IF Len(hs) = 2 THEN << <<"H", hs[1] \o hs[2]>> >>
    ELSE LevelRoot([k \in 1..((Len(hs) + 1) \div 2) |->
                      << <<"H", hs[2 * k - 1]
                                  \o hs[IF 2 * k <= Len(hs) THEN 2 * k ELSE 2 * k - 1]>> >>])

ExpectedRoot(content) ==
    LevelRoot(Pad([i \in 1..Len(content) |-> << <<"H", content[i]>> >>]))

\* C7: NewTree fails on an empty list; on a non-empty one it succeeds and
\* MerkleRoot() = Root.Hash = Root.VerifyNode() = the root recomputed from
\* the items (leaf digest item.CalculateHash(), an odd leaf count padded
\* with a duplicate of the last leaf flagged dup, parents H(left || right)
\* without prefix, an unpaired node paired with itself).
C7_NodeTreeRoot ==
    /\ nt.built =>
         IF nt.content = <<>> THEN nt.err = ErrNoContents /\ nt.t = NoTree
         ELSE LET padded == Pad(nt.content)
              IN  /\ nt.err = NoErr
                  /\ MerkleRoot(nt.t) = nt.heap[nt.t.Root].Hash
                  /\ MerkleRoot(nt.t) = ExpectedRoot(nt.content)
                  /\ VerifyNode(nt.heap, nt.t.Root) = MerkleRoot(nt.t)
                  /\ Len(nt.t.Leaves) = Len(padded)
                  /\ \A i \in 1..Len(padded) :
                        LET leaf == nt.heap[nt.t.Leaves[i]]
                        IN  /\ leaf.leaf
                            /\ leaf.Item = padded[i]
                            /\ leaf.Hash = << <<"H", padded[i]>> >>
                            /\ leaf.dup <=> (i > Len(nt.content))
    /\ ret.op \in {"MerkleRoot", "VerifyNode"} => ret.val = ExpectedRoot(nt.content)

C7_Witness ==
    /\ nt.built /\ nt.err = NoErr
    /\ Len(nt.content) = 5
    /\ ret.op = "VerifyNode"
    /\ ret.val = MerkleRoot(nt.t)
    /\ nt.heap[nt.t.Leaves[6]].dup

\* The outcome of Verify when the digest rebuilt at step k is Rebuilt(k).
VerifyOutcome(Rebuilt(_)) ==
    LET leaf == LeafIndex(mt, ret.block)
        bad == {k \in 0..(Len(ret.proof) - 1) :
                   Rebuilt(k) # At(mt.nodes, ParentOf(Ancestor(leaf, k)))}
    IN  IF bad = {} THEN NoErr
        ELSE LET k == CHOOSE x \in bad : \A y \in bad : x <= y
             IN  ErrInvalidProof(k, ret.block, Rebuilt(k),
                                 At(mt.nodes, ParentOf(Ancestor(leaf, k))))

\* H(0x01 || sibling || current) at an odd index, H(0x01 || current || sibling) otherwise.
RebuiltAsStated(k) ==
    LET idx == Ancestor(LeafIndex(mt, ret.block), k)
        sibling == Bytes(At(ret.proof, k))
        current == At(mt.nodes, idx)
    IN  IF idx % 2 = 1 THEN InternalDigest(sibling, current)
        ELSE InternalDigest(current, sibling)

\* H(0x01 || sibling || current) at an even index, H(0x01 || current || sibling) otherwise.
RebuiltAsCoded(k) ==
    LET idx == Ancestor(LeafIndex(mt, ret.block), k)
        sibling == Bytes(At(ret.proof, k))
        current == At(mt.nodes, idx)
    IN  IF idx % 2 = 0 THEN InternalDigest(sibling, current)
        ELSE InternalDigest(current, sibling)

\* C8 as stated: the digest compared with the stored parent at each step is
\* H(0x01 || sibling || current) if the current index is odd and
\* H(0x01 || current || sibling) otherwise.
C8_SiblingLeftWhenOdd ==
    VerifiedPresent => ret.err = VerifyOutcome(RebuiltAsStated)

\* C8 amended: the digest compared with the stored parent at each step is
\* H(0x01 || sibling || current) if the current index is even (the current
\* node is a right child) and H(0x01 || current || sibling) if it is odd.
C8_SiblingLeftWhenEven ==
    VerifiedPresent => ret.err = VerifyOutcome(RebuiltAsCoded)

C8_Witness ==
    /\ VerifiedPresent
    /\ ret.err = NoErr
    /\ Len(ret.proof) = 3
    /\ LeafIndex(mt, ret.block) % 2 = 0

\* C9: Proof of a present block never indexes out of range and returns the
\* sibling digests along the path from the leaf of the first matching block
\* up to, not including, the root, leaf level first; its length is the
\* leaf's depth, no entry is empty, and at most one slot was dropped.
C9_ProofPath ==
    (ret.op = "Proof" /\ mt.finalized /\ ret.block # Nil /\ Has(mt, ret.block))
        => LET leaf == LeafIndex(mt, ret.block)
           IN  /\ ret.err = NoErr
               /\ ret.proof = SiblingPath(mt.nodes, leaf)
               /\ Len(ret.proof) = Depth(leaf)
               /\ \A k \in 1..Len(ret.proof) : ret.proof[k] # Nil /\ ret.proof[k] # <<>>
               /\ Log2Floor(Len(mt.nodes)) - Len(ret.proof) \in {0, 1}

C9_Witness ==
    /\ ret.op = "Proof" /\ mt.finalized /\ ret.err = NoErr
    /\ Len(mt.nodes) = 11
    /\ Len(ret.proof) = 2
    /\ FirstPos(mt.blocks, ret.block) = 1

\* C10: for a block b present in a finalized tree, Verify(b, p) returns no
\* error exactly when p is a prefix of Proof(b); any other p, a proof longer
\* than the leaf's depth included, is rejected with a mismatch error and
\* never with an out-of-range access.
C10_AcceptsExactlyPrefixes ==
    VerifiedPresent
        => LET genuine == Proof(mt, ret.block).val
           IN  IF IsPrefix(ret.proof, genuine) THEN ret.err = NoErr
               ELSE IsMismatch(ret.err)

C10_Witness ==
    /\ VerifiedPresent
    /\ Len(ret.proof) = Len(Proof(mt, ret.block).val) + 1
    /\ IsPrefix(Proof(mt, ret.block).val, ret.proof)
    /\ IsMismatch(ret.err)
    /\ ret.err[2] = Len(ret.proof) - 1

====
